---- MODULE Spec2Model ----
(***************************************************************************)
(* The owning-buffer classes of the repository as a state machine over an  *)
(* explicit heap:                                                          *)
(*   - Student with `int** matrix; int size` (the Rule-of-3 listing of     *)
(*     src/unnamed/part_000: copy constructor, operator=, destructor);     *)
(*   - Student with `int* marks` of three cells and TA derived from it     *)
(*     (src/unnamed/part_001).                                             *)
(* An object lives in a slot; the heap maps addresses to blocks.  C++      *)
(* arrays are functions over 0..n-1.                                       *)
(***************************************************************************)
EXTENDS Integers, Sequences, FiniteSets, TLC

\* ---------------------------------------------------------------- bounds
NumObj == 2          \* object slots
MaxSize == 2         \* largest matrix side handed to a constructor
HeapSize == 5        \* heap addresses; operator new throws when none is free
MaxLeaks == 1        \* unowned blocks after which no further TA is constructed
MaxWrites == 1       \* cell writes made from outside the class in one run
MaxDeficit == 1      \* live Persons that Person::population may fall short of

\* ------------------------------------------------------ program constants
MarksLen == 3        \* new int[3]
NULL == 0            \* nullptr
Indet == -1          \* the indeterminate value of a fresh `new int[n]` cell

Slots == 1..NumObj
Addrs == 1..HeapSize
Sizes == 0..MaxSize
NegSizes == (-MaxSize)..(-1)   \* sizes no grid has: Construct(-1)
Vals == {0, 85}      \* values constructors are given: the default 0, and 85
WriteVals == {85}    \* the value written into a cell: s2.marks[0] = 85
TAMarks == [i \in 0..(MarksLen - 1) |-> IF i = 0 THEN 90 ELSE IF i = 1 THEN 95 ELSE 100]

VARIABLES
    prog,    \* which program runs: the two define class Student differently
    heap,    \* heap[a] = [live, data]: block at address a; data is the array
    objs,    \* objs[o] = [st, kind, size, matrix, marks]: the object in slot o
    last,    \* the operation that produced this state and what it surfaced
    writes,  \* cell writes made so far
    population   \* static int Person::population

vars == <<prog, heap, objs, last, writes, population>>

FreeBlock == [live |-> FALSE, data |-> <<>>]
NoObj == [st |-> "none", kind |-> "none", size |-> 0, matrix |-> NULL, marks |-> NULL]
\* op names the call made ("resize_assign": an assignment between instances
\* of different sizes; "self_assign": x = x); err what it surfaced; arg the
\* index of a raw write outside the array, 0 otherwise.
Op(op, err, arg) == [op |-> op, err |-> err, arg |-> arg]

\* ------------------------------------------------------------------ heap
FreeAddrs(h) == {a \in Addrs : ~h[a].live}

\* operator new[]: a block of n cells, each `init`; throws std::bad_alloc
\* (ok = FALSE) when the heap is exhausted.  The lowest free address is handed
\* out, so a released address is reused by the next allocation.
NewArray(h, n, init) ==
    IF FreeAddrs(h) = {}
    THEN [ok |-> FALSE, heap |-> h, addr |-> NULL]
    ELSE LET a == CHOOSE x \in FreeAddrs(h) : \A y \in FreeAddrs(h) : x <= y
         IN  [ok |-> TRUE,
              heap |-> [h EXCEPT ![a] = [live |-> TRUE, data |-> [i \in 0..(n - 1) |-> init]]],
              addr |-> a]

\* operator delete[] on a set of addresses (delete[] nullptr does nothing)
DeleteArrays(h, as) == [a \in Addrs |-> IF a \in as THEN FreeBlock ELSE h[a]]

\* for (i..size-1) matrix[i] = new int[size];
RECURSIVE AllocRows(_, _, _, _)
AllocRows(h, m, i, size) ==
    IF i >= size
    THEN [ok |-> TRUE, heap |-> h]
    ELSE LET r == NewArray(h, size, Indet)
         IN  IF ~r.ok
             THEN [ok |-> FALSE, heap |-> h]
             ELSE AllocRows([r.heap EXCEPT ![m].data[i] = r.addr], m, i + 1, size)

\* matrix = new int*[size]; then the rows
NewMatrix(h, size) ==
    LET m == NewArray(h, size, Indet)
    IN  IF ~m.ok
        THEN [ok |-> FALSE, heap |-> h, addr |-> NULL, got |-> FALSE]
        ELSE LET r == AllocRows(m.heap, m.addr, 0, size)
             IN  [ok |-> r.ok, heap |-> r.heap, addr |-> m.addr, got |-> TRUE]

\* for i, j: dst[i][j] = src[i][j]
CopyCells(h, dst, src, size) ==
    [a \in Addrs |->
        IF \E i \in 0..(size - 1) : h[dst].data[i] = a
        THEN LET i == CHOOSE k \in 0..(size - 1) : h[dst].data[k] = a
             IN  [h[a] EXCEPT !.data = [j \in 0..(size - 1) |-> h[h[src].data[i]].data[j]]]
        ELSE h[a]]

\* if (matrix) { for i: delete[] matrix[i]; delete[] matrix; }
DeleteMatrix(h, matrix, size) ==
    IF matrix = NULL
    THEN h
    ELSE DeleteArrays(h, {h[matrix].data[i] : i \in 0..(size - 1)} \cup {matrix})

\* ------------------------------------------- Student with int** matrix
\* The square contents an instance reads through its pointers.
MatrixCells(h, ob) ==
    [r \in 0..(ob.size - 1) |-> [c \in 0..(ob.size - 1) |-> h[h[ob.matrix].data[r]].data[c]]]

\* for i, j: matrix[i][j] = fill
FillCells(h, m, size, fill) ==
    [a \in Addrs |->
        IF \E i \in 0..(size - 1) : h[m].data[i] = a
        THEN [h[a] EXCEPT !.data = [j \in 0..(size - 1) |-> fill]]
        ELSE h[a]]

\* Mutant of MatrixStudent: the size is stored as given, negative or not, and
\* a size below 1 gets no storage.
MatrixStudentNoSizeCheck(h, os, o, size, fill) ==
    IF size <= 0
    THEN [ok |-> TRUE, heap |-> h,
          objs |-> [os EXCEPT ![o] = [st |-> "live", kind |-> "matrix", size |-> size,
                                      matrix |-> NULL, marks |-> NULL]]]
    ELSE LET m == NewMatrix(h, size)
         IN  IF ~m.ok
             THEN [ok |-> FALSE, heap |-> h, objs |-> os]
             ELSE [ok |-> TRUE,
                   heap |-> FillCells(m.heap, m.addr, size, fill),
                   objs |-> [os EXCEPT ![o] = [st |-> "live", kind |-> "matrix", size |-> size,
                                               matrix |-> m.addr, marks |-> NULL]]]

\* Student::Student(int id, int age, string name, double fees, int size): the
\* listing elides the body; it is modelled from the specification's Construct:
\* size*size freshly allocated cells, every one `fill`; no storage for size 0;
\* a failure (a negative size, or operator new throwing) leaves no instance
\* and nothing allocated.
MatrixStudent(h, os, o, size, fill) ==
    IF size < 0
    THEN [ok |-> FALSE, heap |-> h, objs |-> os]
    ELSE IF size = 0
    THEN [ok |-> TRUE, heap |-> h,
          objs |-> [os EXCEPT ![o] = [st |-> "live", kind |-> "matrix", size |-> 0,
                                      matrix |-> NULL, marks |-> NULL]]]
    ELSE LET m == NewMatrix(h, size)
         IN  IF ~m.ok
             THEN [ok |-> FALSE, heap |-> h, objs |-> os]
             ELSE [ok |-> TRUE,
                   heap |-> FillCells(m.heap, m.addr, size, fill),
                   objs |-> [os EXCEPT ![o] = [st |-> "live", kind |-> "matrix", size |-> size,
                                               matrix |-> m.addr, marks |-> NULL]]]

\* Mutant of MatrixStudentCopy: a fresh row array, but the row pointers are
\* copied instead of the rows (matrix[i] = s.matrix[i]).
MatrixStudentCopyRowPointers(h, os, o, s) ==
    LET size == os[s].size
        m == NewArray(h, size, Indet)
    IN  IF ~m.ok
        THEN [ok |-> FALSE, heap |-> h, objs |-> os]
        ELSE [ok |-> TRUE,
              heap |-> [m.heap EXCEPT ![m.addr].data =
                           [i \in 0..(size - 1) |-> h[os[s].matrix].data[i]]],
              objs |-> [os EXCEPT ![o] = [st |-> "live", kind |-> "matrix", size |-> size,
                                          matrix |-> m.addr, marks |-> NULL]]]

\* Student::Student(const Student &s): size(s.size), fresh rows, element-wise
\* copy.  A throwing `new` ends the constructor: the object never comes to
\* life and the blocks already allocated stay allocated.
MatrixStudentCopy(h, os, o, s) ==
    LET size == os[s].size
        m == NewMatrix(h, size)
    IN  IF ~m.ok
        THEN [ok |-> FALSE, heap |-> m.heap, objs |-> os]
        ELSE [ok |-> TRUE,
              heap |-> CopyCells(m.heap, m.addr, os[s].matrix, size),
              objs |-> [os EXCEPT ![o] = [st |-> "live", kind |-> "matrix", size |-> size,
                                          matrix |-> m.addr, marks |-> NULL]]]

\* Mutant of MatrixAssign: reallocates only to grow (size < s.size); a larger
\* receiver keeps its size and rows and takes the source's cells top-left.
MatrixAssignGrowOnly(h, os, o, s) ==
    IF o = s
    THEN [ok |-> TRUE, heap |-> h, objs |-> os]
    ELSE IF os[o].size < os[s].size
    THEN LET h1 == DeleteMatrix(h, os[o].matrix, os[o].size)
             size == os[s].size
             m == NewMatrix(h1, size)
             ob == [os[o] EXCEPT !.size = size,
                                 !.matrix = IF m.got THEN m.addr ELSE os[o].matrix]
         IN  IF ~m.ok
             THEN [ok |-> FALSE, heap |-> m.heap, objs |-> [os EXCEPT ![o] = ob]]
             ELSE [ok |-> TRUE,
                   heap |-> CopyCells(m.heap, m.addr, os[s].matrix, size),
                   objs |-> [os EXCEPT ![o] = ob]]
    ELSE [ok |-> TRUE,
          heap |-> [a \in Addrs |->
                      IF \E i \in 0..(os[s].size - 1) : h[os[o].matrix].data[i] = a
                      THEN LET i == CHOOSE k \in 0..(os[s].size - 1) : h[os[o].matrix].data[k] = a
                           IN  [h[a] EXCEPT !.data =
                                   [j \in DOMAIN h[a].data |->
                                       IF j < os[s].size THEN h[h[os[s].matrix].data[i]].data[j]
                                       ELSE h[a].data[j]]]
                      ELSE h[a]],
          objs |-> os]

\* Mutant of MatrixAssign: no identity test and storage always replaced, so
\* x = x releases the rows it is about to copy from.
MatrixAssignNoGuard(h, os, o, s) ==
    LET h1 == DeleteMatrix(h, os[o].matrix, os[o].size)
        size == os[s].size
        m == NewMatrix(h1, size)
        ob == [os[o] EXCEPT !.size = size,
                            !.matrix = IF m.got THEN m.addr ELSE os[o].matrix]
        src == IF o = s THEN m.addr ELSE os[s].matrix
    IN  IF ~m.ok
        THEN [ok |-> FALSE, heap |-> m.heap, objs |-> [os EXCEPT ![o] = ob]]
        ELSE [ok |-> TRUE,
              heap |-> CopyCells(m.heap, m.addr, src, size),
              objs |-> [os EXCEPT ![o] = ob]]

\* Mutant of MatrixAssign: the copy loops after a reallocation are missing.
MatrixAssignNoCopy(h, os, o, s) ==
    IF o = s
    THEN [ok |-> TRUE, heap |-> h, objs |-> os]
    ELSE IF os[o].size # os[s].size
    THEN LET h1 == DeleteMatrix(h, os[o].matrix, os[o].size)
             size == os[s].size
             m == NewMatrix(h1, size)
             ob == [os[o] EXCEPT !.size = size,
                                 !.matrix = IF m.got THEN m.addr ELSE os[o].matrix]
         IN  [ok |-> m.ok, heap |-> m.heap, objs |-> [os EXCEPT ![o] = ob]]
    ELSE [ok |-> TRUE,
          heap |-> CopyCells(h, os[o].matrix, os[s].matrix, os[o].size),
          objs |-> os]

\* Student& Student::operator=(const Student &s)
MatrixAssign(h, os, o, s) ==
    IF o = s
    THEN [ok |-> TRUE, heap |-> h, objs |-> os]                \* if (this == &s) return *this;
    ELSE IF os[o].size # os[s].size
    THEN LET h1 == DeleteMatrix(h, os[o].matrix, os[o].size)   \* if (matrix) { delete ... }
             size == os[s].size                                \* size = s.size;
             m == NewMatrix(h1, size)                          \* matrix = new int*[size]; rows
             ob == [os[o] EXCEPT !.size = size,
                                 !.matrix = IF m.got THEN m.addr ELSE os[o].matrix]
         IN  IF ~m.ok
             THEN [ok |-> FALSE, heap |-> m.heap, objs |-> [os EXCEPT ![o] = ob]]
             ELSE [ok |-> TRUE,
                   heap |-> CopyCells(m.heap, m.addr, os[s].matrix, size),
                   objs |-> [os EXCEPT ![o] = ob]]
    ELSE [ok |-> TRUE,
          heap |-> CopyCells(h, os[o].matrix, os[s].matrix, os[o].size),
          objs |-> os]

\* Student::~Student(): releases the rows and the row array; size and matrix
\* keep their values.
MatrixDtor(h, os, o) ==
    [ok |-> TRUE,
     heap |-> DeleteMatrix(h, os[o].matrix, os[o].size),
     objs |-> [os EXCEPT ![o].st = "dead"]]

\* ---------------------------------------- Student with int* marks, and TA
MarksCells(h, ob) == h[ob.marks].data

MarksObj(kind, addr) ==
    [st |-> "live", kind |-> kind, size |-> 0, matrix |-> NULL, marks |-> addr]

\* Mutant of MarksStudent: marks = new int[3]; without the initializer list.
MarksStudentUninit(h, os, o, m1, m2, m3) ==
    LET m == NewArray(h, MarksLen, Indet)
    IN  IF ~m.ok
        THEN [ok |-> FALSE, heap |-> h, objs |-> os]
        ELSE [ok |-> TRUE, heap |-> m.heap,
              objs |-> [os EXCEPT ![o] = MarksObj("student", m.addr)]]

\* Student(int age, string name, int id, int m1 = 0, int m2 = 0, int m3 = 0):
\*     marks = new int[3]{m1, m2, m3};
\* Student() : marks = new int[3]{0}; is the same with m1 = m2 = m3 = 0.
MarksStudent(h, os, o, m1, m2, m3) ==
    LET m == NewArray(h, MarksLen, Indet)
    IN  IF ~m.ok
        THEN [ok |-> FALSE, heap |-> h, objs |-> os]
        ELSE [ok |-> TRUE,
              heap |-> [m.heap EXCEPT ![m.addr].data =
                           [i \in 0..(MarksLen - 1) |-> IF i = 0 THEN m1 ELSE IF i = 1 THEN m2 ELSE m3]],
              objs |-> [os EXCEPT ![o] = MarksObj("student", m.addr)]]

\* Mutant of MarksStudentCopy: the member-wise copy, marks = s.marks.
MarksStudentCopyShallow(h, os, o, s) ==
    [ok |-> TRUE, heap |-> h,
     objs |-> [os EXCEPT ![o] = MarksObj(os[s].kind, os[s].marks)]]

\* Student(const Student& s): marks = new int[3]; marks[i] = s.marks[i].
\* The copy of a TA goes through the same constructor.
MarksStudentCopy(h, os, o, s) ==
    LET m == NewArray(h, MarksLen, Indet)
    IN  IF ~m.ok
        THEN [ok |-> FALSE, heap |-> h, objs |-> os]
        ELSE [ok |-> TRUE,
              heap |-> [m.heap EXCEPT ![m.addr].data =
                           [i \in 0..(MarksLen - 1) |-> h[os[s].marks].data[i]]],
              objs |-> [os EXCEPT ![o] = MarksObj(os[s].kind, m.addr)]]

\* void operator=(const Student& s): marks[i] = s.marks[i]; no identity test.
MarksAssign(h, os, o, s) ==
    [ok |-> TRUE,
     heap |-> [h EXCEPT ![os[o].marks].data =
                  [i \in 0..(MarksLen - 1) |-> h[os[s].marks].data[i]]],
     objs |-> os]

\* ~Student(): delete[] marks; marks = nullptr;
MarksDtor(h, os, o) ==
    [ok |-> TRUE,
     heap |-> DeleteArrays(h, {os[o].marks} \ {NULL}),
     objs |-> [os EXCEPT ![o].st = "dead", ![o].marks = NULL]]

\* TA(string name, int age, int id, double salary)
\*     : Person(age, name, id), Student(age, name, id), Teacher(...)
\* { marks = new int[3]{90, 95, 100}; }
\* The Student base constructor has already allocated marks; the body stores a
\* second block over that pointer.  If the body's `new` throws, the Student
\* base is destroyed and its block released.
TACtor(h, os, o) ==
    LET base == MarksStudent(h, os, o, 0, 0, 0)
    IN  IF ~base.ok
        THEN [ok |-> FALSE, heap |-> h, objs |-> os]
        ELSE LET m == NewArray(base.heap, MarksLen, Indet)
             IN  IF ~m.ok
                 THEN [ok |-> FALSE, heap |-> h, objs |-> os]
                 ELSE [ok |-> TRUE,
                       heap |-> [m.heap EXCEPT ![m.addr].data = TAMarks],
                       objs |-> [os EXCEPT ![o] = MarksObj("ta", m.addr)]]

\* --------------------------------------------------------------- actions
Live(o) == objs[o].st = "live"
\* A new object takes the first slot that holds no live object.
Vacant(o) == ~Live(o) /\ \A p \in Slots : p < o => Live(p)
IsMatrix(o) == objs[o].kind = "matrix"
IsMarks(o) == objs[o].kind \in {"student", "ta"}

\* No exception has escaped and nothing has crashed: main has no handler, so
\* either ends the program.
Running == last.err = "none"

\* ---------------------------------------------------------------- Person
\* Person(int x = 0) and Person(int age, string name, int personID = 0)
PersonCtor(n) == n + 1
\* Person(const Person& p): the counter is not touched
PersonCopy(n) == n
\* ~Person()
PersonDtor(n) == n - 1

\* Person::population after a call of the marks program, whose Student and TA
\* have Person as their (virtual) base: one Person constructor runs before
\* the Student body and ~Person() after ~Student().  When the body throws,
\* the Person base is destroyed if the stack is unwound, which without a
\* handler is up to the implementation.  The matrix listing shows no counter.
PopulationAfter(op, ok) ==
    IF prog # "marks" THEN {population}
    ELSE IF op \in {"student", "ta"}
         THEN IF ok THEN {PersonCtor(population)}
              ELSE {PersonCtor(population), PersonDtor(PersonCtor(population))}
    ELSE IF op = "copy"
         THEN IF ok THEN {PersonCopy(population)}
              ELSE {PersonCopy(population), PersonDtor(PersonCopy(population))}
    ELSE IF op \in {"destroy", "release"} THEN {PersonDtor(population)}
    ELSE {population}

\* How many live objects the counter falls short of.
Deficit == Cardinality({o \in Slots : Live(o)}) - population

\* The state after an operation whose result is r.
Apply(r, op, arg) ==
    /\ heap' = r.heap
    /\ objs' = r.objs
    /\ last' = Op(op, IF r.ok THEN "none" ELSE "bad_alloc", arg)
    /\ population' \in PopulationAfter(op, r.ok)
    /\ UNCHANGED <<prog, writes>>

Init ==
    /\ prog \in {"matrix", "marks"}
    /\ writes = 0
    /\ heap = [a \in Addrs |-> FreeBlock]
    /\ objs = [o \in Slots |-> NoObj]
    /\ last = Op("init", "none", 0)
    /\ population = 0

\* Student s(id, age, name, fees, size);
Construct(o, size, fill) ==
    /\ Running /\ prog = "matrix" /\ Vacant(o)
    /\ LET r == MatrixStudent(heap, objs, o, size, fill)
       IN  r.ok /\ Apply(r, "construct", 0)

\* Student s;   and   Student s(age, name, id, m1);   (m2, m3 defaulted)
ConstructStudent(o, m1) ==
    /\ Running /\ prog = "marks" /\ Vacant(o)
    /\ LET r == MarksStudent(heap, objs, o, m1, 0, 0)
       IN  r.ok /\ Apply(r, "student", 0)

\* Blocks a live object reaches through its pointers.
Owned(h, ob) ==
    IF ob.kind = "matrix"
    THEN IF ob.matrix = NULL THEN {}
         ELSE {ob.matrix} \cup {h[ob.matrix].data[i] : i \in 0..(ob.size - 1)}
    ELSE {ob.marks} \ {NULL}

\* Allocated blocks that no live object reaches.
Leaked == {a \in Addrs : heap[a].live /\ \A o \in Slots : Live(o) => a \notin Owned(heap, objs[o])}

\* TA ta1("Charlie", 23, 301, 35000);
ConstructTA(o) ==
    /\ Running /\ prog = "marks" /\ Vacant(o)
    /\ Cardinality(Leaked) < MaxLeaks
    /\ LET r == TACtor(heap, objs, o)
       IN  r.ok /\ Apply(r, "ta", 0)

CopyResult(o, s) ==
    IF IsMatrix(s) THEN MatrixStudentCopy(heap, objs, o, s)
    ELSE MarksStudentCopy(heap, objs, o, s)

\* Student s2 = s1;
CopyConstruct(o, s) ==
    /\ Running /\ Vacant(o) /\ Live(s)
    /\ prog = "marks" => Deficit < MaxDeficit
    /\ LET r == CopyResult(o, s)
       IN  r.ok /\ Apply(r, "copy", 0)

AssignOp(o, s) ==
    IF o = s THEN "self_assign"
    ELSE IF objs[o].size # objs[s].size THEN "resize_assign"
    ELSE "assign"

AssignResult(o, s) ==
    IF IsMatrix(o) THEN MatrixAssign(heap, objs, o, s)
    ELSE MarksAssign(heap, objs, o, s)

\* s3 = s2;   (s3 = s3 included)
Assign(o, s) ==
    /\ Running /\ Live(o) /\ Live(s)
    /\ IsMatrix(o) = IsMatrix(s)
    /\ LET r == AssignResult(o, s)
       IN  r.ok /\ Apply(r, AssignOp(o, s), 0)

DtorResult(o) ==
    IF IsMatrix(o) THEN MatrixDtor(heap, objs, o) ELSE MarksDtor(heap, objs, o)

\* The object goes out of scope (or is deleted): its destructor runs, then the
\* object's own storage is gone and with it the members the destructor left.
Destroy(o) ==
    /\ Running /\ Live(o)
    /\ LET r == DtorResult(o)
       IN  Apply([r EXCEPT !.objs = [r.objs EXCEPT ![o] = NoObj]], "destroy", 0)

\* s2.marks[0] = 85;   with an index inside the array
WriteMark(o, i, v) ==
    /\ Running /\ Live(o) /\ IsMarks(o)
    /\ writes < MaxWrites
    /\ heap' = [heap EXCEPT ![objs[o].marks].data[i] = v]
    /\ last' = Op("write", "none", 0)
    /\ writes' = writes + 1
    /\ UNCHANGED <<prog, objs, population>>

\* Set(row, col, value) of the specification, on the matrix Student
SetCell(o, r, c, v) ==
    /\ Running /\ Live(o) /\ IsMatrix(o)
    /\ r \in 0..(objs[o].size - 1) /\ c \in 0..(objs[o].size - 1)
    /\ writes < MaxWrites
    /\ heap' = [heap EXCEPT ![heap[objs[o].matrix].data[r]].data[c] = v]
    /\ last' = Op("set", "none", 0)
    /\ writes' = writes + 1
    /\ UNCHANGED <<prog, objs, population>>

Next ==
    \/ \E o \in Slots, size \in Sizes, fill \in Vals : Construct(o, size, fill)
    \/ \E o \in Slots, m1 \in Vals : ConstructStudent(o, m1)
    \/ \E o \in Slots : ConstructTA(o)
    \/ \E o, s \in Slots : CopyConstruct(o, s)
    \/ \E o, s \in Slots : Assign(o, s)
    \/ \E o \in Slots : Destroy(o)
    \/ \E o \in Slots, i \in {0, MarksLen - 1}, v \in WriteVals : WriteMark(o, i, v)
    \/ \E o \in Slots : \E r, c \in {0, objs[o].size - 1}, v \in WriteVals : SetCell(o, r, c, v)

Spec == Init /\ [][Next]_vars

\* ------------------------------------------------ operator new throwing
\* The same operations when an allocation inside them throws std::bad_alloc.
\* Nothing in the programs catches it: the program ends there.
ConstructThrows(o, size, fill) ==
    /\ Running /\ prog = "matrix" /\ Vacant(o)
    /\ LET r == MatrixStudent(heap, objs, o, size, fill)
       IN  ~r.ok /\ Apply(r, "construct", 0)

CopyConstructThrows(o, s) ==
    /\ Running /\ Vacant(o) /\ Live(s)
    /\ prog = "marks" => Deficit < MaxDeficit
    /\ LET r == CopyResult(o, s)
       IN  ~r.ok /\ Apply(r, "copy", 0)

AssignThrows(o, s) ==
    /\ Running /\ Live(o) /\ Live(s)
    /\ IsMatrix(o) = IsMatrix(s)
    /\ LET r == AssignResult(o, s)
       IN  ~r.ok /\ Apply(r, AssignOp(o, s), 0)

NextOOM ==
    \/ Next
    \/ \E o \in Slots, size \in Sizes, fill \in Vals : ConstructThrows(o, size, fill)
    \/ \E o, s \in Slots : CopyConstructThrows(o, s)
    \/ \E o, s \in Slots : AssignThrows(o, s)

SpecOOM == Init /\ [][NextOOM]_vars

\* ------------------------------------------------------- a negative size
\* Student s(id, age, name, fees, size) with size < 0: the constructor ends
\* with the exception the specification calls InvalidArgument when it refuses
\* the size.  Nothing catches it.
ConstructInvalid(o, size, fill) ==
    /\ Running /\ prog = "matrix" /\ Vacant(o)
    /\ size < 0
    /\ LET r == MatrixStudent(heap, objs, o, size, fill)
       IN  /\ heap' = r.heap
           /\ objs' = r.objs
           /\ last' = Op("construct", IF r.ok THEN "none" ELSE "InvalidArgument", 0)
    /\ UNCHANGED <<prog, writes, population>>

\* Only the matrix program has this constructor; its operations:
InitInvalid == Init /\ prog = "matrix"

NextInvalid ==
    \/ \E o \in Slots, size \in Sizes, fill \in Vals : Construct(o, size, fill)
    \/ \E o \in Slots, size \in NegSizes, fill \in Vals : ConstructInvalid(o, size, fill)
    \/ \E o, s \in Slots : CopyConstruct(o, s)
    \/ \E o, s \in Slots : Assign(o, s)
    \/ \E o \in Slots : Destroy(o)
    \/ \E o \in Slots : \E r, c \in {0, objs[o].size - 1}, v \in WriteVals : SetCell(o, r, c, v)

SpecInvalid == InitInvalid /\ [][NextInvalid]_vars

\* ------------------------------------------------- raw index out of range
\* s.marks[i] = v with i outside 0..2: marks is a public raw pointer and
\* nothing checks the index.  The write is undefined behaviour: it may land in
\* memory nobody reads, land in a cell of another block, or end the program.
WriteMarkOutside(o, i, v) ==
    /\ Running /\ Live(o) /\ IsMarks(o)
    /\ i \notin 0..(MarksLen - 1)
    /\ writes < MaxWrites
    /\ \/ heap' = heap /\ last' = Op("write", "none", i)
       \/ \E a \in Addrs \ {objs[o].marks}, j \in 0..(MarksLen - 1) :
             /\ heap[a].live
             /\ heap' = [heap EXCEPT ![a].data[j] = v]
             /\ last' = Op("write", "none", i)
       \/ heap' = heap /\ last' = Op("write", "crash", i)
    /\ writes' = writes + 1
    /\ UNCHANGED <<prog, objs, population>>

NextUnchecked ==
    \/ Next
    \/ \E o \in Slots, i \in {-1, MarksLen}, v \in WriteVals : WriteMarkOutside(o, i, v)

SpecUnchecked == Init /\ [][NextUnchecked]_vars

\* ------------------------------------------------- the destructor run twice
\* x.~Student(): the destructor body runs and the object's storage stays, so
\* the members it left can be looked at and the body can run again.
Release(o) ==
    /\ Running /\ Live(o)
    /\ Apply(DtorResult(o), "release", 0)

\* The body of ~Student() on an object already destroyed.  With marks (or
\* matrix) null nothing is deleted; in the marks program ~Person() follows and
\* counts down once more.  With the matrix pointer left dangling the
\* rows and the row array are deleted a second time, which is undefined
\* behaviour: the allocator aborts, or takes the address back once more and
\* with it whatever block lives there by now (the heap is then corrupt and the
\* run is followed no further).
ReleaseAgain(o) ==
    /\ Running /\ objs[o].st = "dead"
    /\ prog = "marks" => Deficit < MaxDeficit
    /\ population' \in PopulationAfter("release", TRUE)
    /\ UNCHANGED <<prog, objs, writes>>
    /\ IF IsMatrix(o) /\ objs[o].matrix # NULL
       THEN \/ heap' = heap /\ last' = Op("release_again", "crash", 0)
            \/ /\ heap' = DeleteArrays(heap, {objs[o].matrix})
               /\ last' = Op("release_again",
                             IF heap[objs[o].matrix].live THEN "double_free" ELSE "none", 0)
       ELSE /\ heap' = (IF IsMatrix(o) THEN MatrixDtor(heap, objs, o)
                        ELSE MarksDtor(heap, objs, o)).heap
            /\ last' = Op("release_again", "none", 0)

NextRelease ==
    \/ Next
    \/ \E o \in Slots : Release(o)
    \/ \E o \in Slots : ReleaseAgain(o)

SpecRelease == Init /\ [][NextRelease]_vars

\* ================================================================ claims
\* What a caller sees of an instance: its size and its cells.
Value(h, ob) ==
    IF ob.kind = "matrix"
    THEN [size |-> ob.size, cells |-> MatrixCells(h, ob)]
    ELSE [size |-> MarksLen, cells |-> MarksCells(h, ob)]

\* The step writes a cell of the object in slot o.
WroteTo(o) ==
    \/ \E i \in 0..(MarksLen - 1), v \in WriteVals : WriteMark(o, i, v)
    \/ \E r, c \in 0..(MaxSize - 1), v \in WriteVals : SetCell(o, r, c, v)

\* C1: deep-copy isolation.  A copy construction gives the new instance the
\* size and the cells of its source and leaves the source as it was; and a
\* cell write to one instance leaves the size and cells of every other live
\* instance as they were.
C1_DeepCopyIsolation ==
    [][ /\ last'.op = "copy" =>
              \A o, s \in Slots :
                CopyConstruct(o, s) =>
                    /\ Value(heap', objs'[o]) = Value(heap, objs[s])
                    /\ Value(heap', objs'[s]) = Value(heap, objs[s])
        /\ last'.op \in {"write", "set"} =>
              \A o \in Slots :
                WroteTo(o) =>
                    \A p \in Slots \ {o} :
                        Live(p) => Value(heap', objs'[p]) = Value(heap, objs[p])
      ]_vars

\* C1 witness: a cell write has happened and two live instances of one size
\* hold different cells.
C1_Witness ==
    /\ last.op \in {"write", "set"}
    /\ \E o, p \in Slots :
          /\ o # p /\ Live(o) /\ Live(p)
          /\ Value(heap, objs[o]).size = Value(heap, objs[p]).size
          /\ Value(heap, objs[o]) # Value(heap, objs[p])

\* C2: when a = b is run with a.size # b.size and returns, a has b's size and
\* b's cells, and b's size and cells are what they were.
C2_AssignResizes ==
    [][ last'.op = "resize_assign" =>
          \A o, s \in Slots :
            (objs[o].size # objs[s].size /\ Assign(o, s)) =>
                /\ objs'[o].size = objs[s].size
                /\ Value(heap', objs'[o]) = Value(heap, objs[s])
                /\ Value(heap', objs'[s]) = Value(heap, objs[s])
      ]_vars

\* C2 witness: an assignment between instances of different sizes has
\* returned, and two live instances hold equal non-empty contents.
C2_Witness ==
    /\ last.op = "resize_assign"
    /\ \E o, s \in Slots :
          /\ o # s /\ Live(o) /\ Live(s) /\ IsMatrix(o)
          /\ objs[o].size > 0
          /\ Value(heap, objs[o]) = Value(heap, objs[s])

\* C3: x = x changes nothing: not x's size, not its pointers, not a single
\* heap block (nothing is released, nothing allocated, no cell rewritten).
C3_SelfAssignNoOp ==
    [][ last'.op = "self_assign" =>
          \A o \in Slots : Assign(o, o) => (heap' = heap /\ objs' = objs) ]_vars

\* C3 witness: a self-assignment has run on an instance that owns storage.
C3_Witness ==
    /\ last.op = "self_assign"
    /\ \E o \in Slots : Live(o) /\ Owned(heap, objs[o]) # {}

\* C4: no two distinct live instances reach a common storage block.
C4_NoAliasing ==
    \A o, p \in Slots :
        (o # p /\ Live(o) /\ Live(p)) =>
            Owned(heap, objs[o]) \cap Owned(heap, objs[p]) = {}

\* C4 witness: after a copy construction two live instances both own storage.
C4_Witness ==
    /\ last.op = "copy"
    /\ \E o, p \in Slots :
          /\ o # p /\ Live(o) /\ Live(p)
          /\ Owned(heap, objs[o]) # {} /\ Owned(heap, objs[p]) # {}

\* C5: every allocated block is owned by exactly one live instance (nothing
\* leaks, nothing is shared).
C5_NoLeak ==
    \A a \in Addrs :
        heap[a].live =>
            Cardinality({o \in Slots : Live(o) /\ a \in Owned(heap, objs[o])}) = 1

\* C6: Release leaves the instance empty (size 0, no storage pointer), and a
\* second Release changes nothing and frees nothing again.
C6_ReleaseIdempotent ==
    [][ \A o \in Slots :
          /\ Release(o) =>
                (objs'[o].size = 0 /\ objs'[o].matrix = NULL /\ objs'[o].marks = NULL)
          /\ ReleaseAgain(o) =>
                (heap' = heap /\ objs' = objs /\ last'.err = "none")
      ]_vars

\* C7: an assignment whose allocation fails leaves the receiver with its prior
\* size and pointer and with its prior blocks still allocated and unchanged.
C7_AssignAtomicOnFailure ==
    [][ \A o, s \in Slots :
            AssignThrows(o, s) =>
                /\ objs'[o] = objs[o]
                /\ \A a \in Owned(heap, objs[o]) : heap'[a] = heap[a]
      ]_vars

\* C8: a cell access with an index outside the array fails with OutOfRange
\* and changes neither the heap nor any object.
C8_BoundsChecked ==
    [][ \A o \in Slots, i \in {-1, MarksLen}, v \in WriteVals :
            WriteMarkOutside(o, i, v) =>
                (last'.err = "OutOfRange" /\ heap' = heap /\ objs' = objs)
      ]_vars

Block(h, a, n) == a \in Addrs /\ h[a].live /\ DOMAIN h[a].data = 0..(n - 1)

\* The instance's storage is `size` distinct rows of `size` initialized cells
\* (three initialized cells for the marks Student).
Shaped(h, ob) ==
    IF ob.kind = "matrix"
    THEN \/ ob.size = 0 /\ ob.matrix = NULL
         \/ /\ Block(h, ob.matrix, ob.size)
            /\ \A r \in 0..(ob.size - 1) :
                  /\ Block(h, h[ob.matrix].data[r], ob.size)
                  /\ \A c \in 0..(ob.size - 1) : h[h[ob.matrix].data[r]].data[c] # Indet
            /\ \A r, q \in 0..(ob.size - 1) :
                  r # q => h[ob.matrix].data[r] # h[ob.matrix].data[q]
    ELSE /\ Block(h, ob.marks, MarksLen)
         /\ \A i \in 0..(MarksLen - 1) : h[ob.marks].data[i] # Indet

C11_NegativeSizeRejected ==
    [][ last'.op = "construct" =>
          \A o \in Slots, size \in NegSizes, fill \in Vals :
            ConstructInvalid(o, size, fill) =>
                /\ last'.err = "InvalidArgument"
                /\ objs' = objs
                /\ heap' = heap
      ]_vars

\* C11 witness: a construction has been refused while another instance lives
\* and owns storage.
C11_Witness ==
    /\ last.op = "construct" /\ last.err = "InvalidArgument"
    /\ \E o \in Slots : Live(o) /\ Owned(heap, objs[o]) # {}
    /\ \E o \in Slots : ~Live(o)

\* C12: Person::population equals the number of live Person objects (every
\* Student and TA is one), so it is never negative.
C12_PopulationCountsLive ==
    prog = "marks" =>
        /\ population = Cardinality({o \in Slots : Live(o)})
        /\ population >= 0

====
